---------------------------- MODULE Spec2Model ----------------------------
(***************************************************************************)
(* DTS / Bluetooth Sync Helper (src/dts_bt_sync_tool.py): the SyncApp      *)
(* state, its Tk callbacks and its timer threads as a state machine.       *)
(*                                                                         *)
(* Units.  Frames are held in hundredths of a frame (FrameDen), the frame  *)
(* rate as the rational <<n, d>> (n/d frames per second, d > 0), delays in *)
(* whole milliseconds.  The elapsing of time is abstracted: a pending Tk   *)
(* "after" callback or threading.Timer carries the delay it was created    *)
(* with and may fire at any later step.                                    *)
(*                                                                         *)
(* Threads.  Tk callbacks (key presses, button, widget commands and        *)
(* root.after callbacks) run one at a time on the UI thread, so each is    *)
(* one action.  Every threading.Timer runs its function on a thread of its *)
(* own; _repeat_tick is split at the points where it reads or writes the   *)
(* attributes it shares with the UI thread (_running_repeat,               *)
(* _repeat_timer).                                                         *)
(*                                                                         *)
(* The variables bound to entry widgets are modelled by the numbers they   *)
(* hold.  The one failure of the test path that is modelled is the FPS     *)
(* combobox holding text that is no number when frames_to_ms reads it      *)
(* (DoubleVar.get raises): this is what try/finally in _repeat_tick is     *)
(* there for.                                                              *)
(***************************************************************************)
EXTENDS Integers, Sequences, FiniteSets, TLC

VARIABLES
    fps_var,                 \* self.fps_var: <<n, d>>, n/d frames per second
    audio_delay_frames_var,  \* self.audio_delay_frames_var, in 1/FrameDen frames
    delay_target_var,        \* self.delay_target_var: "Audio" or "Visual"
    tone_freq_var,           \* self.tone_freq_var
    tone_ms_var,             \* self.tone_ms_var
    flash_ms_var,            \* self.flash_ms_var
    repeat_var,              \* self.repeat_var
    repeat_interval_ms_var,  \* self.repeat_interval_ms_var
    countdown_var,           \* self.countdown_var
    countdown_step_ms_var,   \* self.countdown_step_ms_var
    countdown_beeps_var,     \* self.countdown_beeps_var
    running_repeat,          \* self._running_repeat
    repeat_timer,            \* self._repeat_timer: a timer id, or None
    flash_bg,                \* background of self.flash: "normal" or "active"
    center_text,             \* text of self.center_id
    audio_backend,           \* USE_WINSOUND / SIMPLEAUDIO_AVAILABLE
    after_queue,             \* callbacks pending in root.after
    beep_timers,             \* pending threading.Timer(.., self._do_beep)
    repeat_timers,           \* threading.Timer(.., self._repeat_tick): waiting or running
    tests,                   \* history: what each run_test call in flight has done
    edits                    \* history: number of edits of the settings so far

settings == <<fps_var, audio_delay_frames_var, delay_target_var, tone_freq_var,
              tone_ms_var, flash_ms_var, countdown_var, countdown_step_ms_var,
              countdown_beeps_var, repeat_interval_ms_var>>

vars == <<fps_var, audio_delay_frames_var, delay_target_var, tone_freq_var,
          tone_ms_var, flash_ms_var, repeat_var, repeat_interval_ms_var,
          countdown_var, countdown_step_ms_var, countdown_beeps_var,
          running_repeat, repeat_timer, flash_bg, center_text, audio_backend,
          after_queue, beep_timers, repeat_timers, tests, edits>>

---------------------------------------------------------------------------
(* Bounds of the model *)

\* run_test calls in flight at one time
MaxTests == 1
\* edits of the settings followed in one behaviour
MaxEdits == 2
\* threading.Timer objects for _repeat_tick alive at one time
MaxTimers == 1
MaxRaceTimers == 2
\* run_test calls in flight at one time when tests overlap
MaxOverlap == 2

---------------------------------------------------------------------------
(* Units and program constants *)

FrameDen == 100
\* 1e-6, the floor of the frame rate in frames_to_ms, is 1/EpsDen
EpsDen == 1000000

ScaleFrom == -8000      \* ttk.Scale from_=-80.0
ScaleTo == 8000         \* ttk.Scale to=80.0
NudgeDeltas == {-100, -25, 25, 100}   \* <Down>, <Left>, <Right>, <Up>

MinToneFreq == 50
MinToneMs == 20
MinStepMs == 200
MinIntervalMs == 200
CueMs == 90
CountFreqs == <<600, 700, 800>>
CountSeq == <<"3", "2", "1">>

None == 0

\* values the user is followed entering
FpsChoices == {<<24, 1>>, <<30, 1>>}
SliderChoices == {-600, -1, 150, 1200, ScaleTo}
ToneFreqChoices == {1000, 30}
ToneMsChoices == {150, 10}
FlashMsChoices == {150, 60}
StepMsChoices == {700, 100}
IntervalMsChoices == {1000, 100}

Max(a, b) == IF a >= b THEN a ELSE b
Abs(a) == IF a >= 0 THEN a ELSE -a

\* Python 3 round() of the non-negative rational n/d: to nearest, ties to even
RoundHalfEven(n, d) ==
    LET q == n \div d
        r == n % d
    IN  IF 2 * r < d THEN q
        ELSE IF 2 * r > d THEN q + 1
        ELSE IF q % 2 = 0 THEN q ELSE q + 1

\* frames_to_ms without the floor: the frame rate as entered is the divisor
frames_to_ms_unclamped(frames, fps) ==
    <<(1000 \div FrameDen) * frames * fps[2], fps[1]>>

\* frames_to_ms(frames) as the rational <<numerator, denominator>> of
\* 1000.0 * (frames / max(fps, 1e-6)), fps being the rational
\* <<fps[1], fps[2]>> that fps_var holds
frames_to_ms(frames, fps) ==
    LET divisor == IF fps[1] * EpsDen >= fps[2] THEN fps ELSE <<1, EpsDen>>
    IN  <<(1000 \div FrameDen) * frames * divisor[2], divisor[1]>>

\* delay_ms without round(): int() alone truncates
delay_ms_truncated(frames, fps) ==
    LET ms == frames_to_ms(Abs(frames), fps)
    IN  ms[1] \div ms[2]

\* delay_ms = int(round(self.frames_to_ms(abs(frames))))
delay_ms_of(frames, fps) ==
    LET ms == frames_to_ms(Abs(frames), fps)
    IN  RoundHalfEven(ms[1], ms[2])

---------------------------------------------------------------------------
(* History of one run_test call, kept for stating properties *)

NoTone == [freq |-> 0, dur |-> 0, ok |-> FALSE]

NoTest ==
    [src |-> "none",          \* "ui" (button, <space>) or "tick" (_repeat_tick)
     with_countdown |-> FALSE, \* self.countdown_var as run_test read it
     shown |-> <<>>,          \* countdown digits displayed, in order
     waits |-> <<>>,          \* delay of each root.after(step, ..) of the countdown
     cues |-> <<>>,           \* frequencies of the countdown cue tones emitted
     performed |-> 0,         \* calls of _perform_test_events
     raised |-> FALSE,        \* _perform_test_events raised reading the frame rate
     frames |-> 0,            \* the locals of _perform_test_events and frames_to_ms
     fps |-> <<0, 1>>,
     delay_ms |-> 0,
     target |-> "",
     events |-> <<>>,         \* "flash" (_flash_on) and "beep" (_do_beep), as they ran
     second_via |-> "none",   \* "direct", "after" (root.after) or "timer" (threading.Timer)
     second_ms |-> 0,         \* delay handed to root.after / threading.Timer
     tone_at_call |-> NoTone, \* the tone settings when _perform_test_events ran
     flash_ms_at_call |-> 0,  \* flash_ms_var when _perform_test_events ran
     tone |-> NoTone,         \* what the test's _do_beep handed to play_beep
     warned |-> FALSE,        \* messagebox.showwarning was called for the test's tone
     flash_ms |-> 0,          \* delay of the flash-off scheduled by the test's _flash_on
     repeat_on |-> TRUE]      \* self._running_repeat when _repeat_tick called run_test

\* A test is in flight from its run_test call until nothing it scheduled is
\* pending
InFlight(id) ==
    \/ \E item \in after_queue : item.inv = id
    \/ \E item \in beep_timers : item.inv = id

\* The history keeps the tests in flight and the test the last step
\* completed: every step drops the records of the tests completed before it
Live == [id \in DOMAIN tests |-> IF InFlight(id) THEN tests[id] ELSE NoTest]

FreeIds == {id \in DOMAIN tests : ~InFlight(id)}

\* the record a new run_test call takes
NewTestId == CHOOSE id \in FreeIds : \A other \in FreeIds : id <= other

\* The part of the state the test path works on, as one value
Ui ==
    [bg |-> flash_bg, text |-> center_text, aq |-> after_queue,
     bt |-> beep_timers, tests |-> Live]

SetUi(st) ==
    /\ flash_bg' = st.bg
    /\ center_text' = st.text
    /\ after_queue' = st.aq
    /\ beep_timers' = st.bt
    /\ tests' = st.tests

\* a step outside the test path
NoTestStep ==
    /\ UNCHANGED <<flash_bg, center_text, after_queue, beep_timers>>
    /\ tests' = Live

AfterItem(fn, id, ms, i) == [fn |-> fn, inv |-> id, ms |-> ms, i |-> i]

---------------------------------------------------------------------------
(* The test path *)

\* play_beep: True with winsound; with simpleaudio True unless play_buffer
\* raises; False with no backend
play_beep(backend) ==
    IF backend = "winsound" THEN {TRUE}
    ELSE IF backend = "simpleaudio" THEN {TRUE, FALSE}
    ELSE {FALSE}

\* _do_beep: the tone of a test (cue = FALSE) or a countdown cue (cue = TRUE);
\* ok is what play_beep returns, and "if not ok" shows the warning.  The
\* history keeps the warning of a test's tone; a cue's is not recorded.
do_beep(st, id, cue, freq, dur, ok) ==
    LET f == IF cue THEN freq ELSE Max(MinToneFreq, tone_freq_var)
        d == IF cue THEN dur ELSE Max(MinToneMs, tone_ms_var)
        t == st.tests[id]
        t2 == IF cue
              THEN [t EXCEPT !.cues = Append(@, f)]
              ELSE [t EXCEPT !.events = Append(@, "beep"),
                             !.tone = [freq |-> f, dur |-> d, ok |-> ok]]
        t3 == IF cue THEN t2 ELSE [t2 EXCEPT !.warned = ~ok]
    IN  [st EXCEPT !.tests = [@ EXCEPT ![id] = t3]]

\* _flash_on without its root.after: nothing ends the flash
flash_on_without_off(st, id) ==
    [st EXCEPT !.bg = "active",
               !.text = "FLASH",
               !.tests = [@ EXCEPT ![id].events = Append(@, "flash"),
                                   ![id].flash_ms = flash_ms_var]]

\* _flash_on
flash_on(st, id) ==
    [st EXCEPT !.bg = "active",
               !.text = "FLASH",
               !.aq = @ \cup {AfterItem("flash_off", id, flash_ms_var, 0)},
               !.tests = [@ EXCEPT ![id].events = Append(@, "flash"),
                                   ![id].flash_ms = flash_ms_var]]

\* _flash_off
flash_off(st) ==
    [st EXCEPT !.bg = "normal", !.text = ""]

\* beep_later without its else branch: no beep when delay_ms is 0
beep_later_timer_only(st, id, delay_ms, ok) ==
    IF delay_ms > 0
    THEN [st EXCEPT !.bt = @ \cup {[inv |-> id, ms |-> delay_ms]},
                    !.tests = [@ EXCEPT ![id].second_via = "timer",
                                        ![id].second_ms = delay_ms]]
    ELSE [st EXCEPT !.tests = [@ EXCEPT ![id].second_via = "direct"]]

\* threading.Timer(delay_ms/1000.0, self._do_beep).start() if delay_ms > 0
\* else self._do_beep()
beep_later(st, id, delay_ms, ok) ==
    IF delay_ms > 0
    THEN [st EXCEPT !.bt = @ \cup {[inv |-> id, ms |-> delay_ms]},
                    !.tests = [@ EXCEPT ![id].second_via = "timer",
                                        ![id].second_ms = delay_ms]]
    ELSE do_beep([st EXCEPT !.tests = [@ EXCEPT ![id].second_via = "direct"]],
                 id, FALSE, 0, 0, ok)

\* flash_after reached only when the beep before it succeeded, as if a failed
\* _do_beep raised out of _perform_test_events
flash_after_unless_beep_failed(st, id, delay_ms) ==
    IF st.tests[id].tone.ok
    THEN [st EXCEPT !.aq = @ \cup {AfterItem("flash_on", id, Abs(delay_ms), 0)},
                    !.tests = [@ EXCEPT ![id].second_via = "after",
                                        ![id].second_ms = Abs(delay_ms)]]
    ELSE st

\* self.root.after(abs(delay_ms), self._flash_on)
flash_after(st, id, delay_ms) ==
    [st EXCEPT !.aq = @ \cup {AfterItem("flash_on", id, Abs(delay_ms), 0)},
               !.tests = [@ EXCEPT ![id].second_via = "after",
                                   ![id].second_ms = Abs(delay_ms)]]

\* self.root.after(delay_ms, self._flash_on) if delay_ms > 0 else self._flash_on()
flash_later(st, id, delay_ms) ==
    IF delay_ms > 0
    THEN flash_after(st, id, delay_ms)
    ELSE flash_on([st EXCEPT !.tests = [@ EXCEPT ![id].second_via = "direct"]], id)

\* the locals of _perform_test_events, into the history
read_settings(st, id) ==
    [st EXCEPT !.tests = [@ EXCEPT
        ![id].performed = @ + 1,
        ![id].frames = audio_delay_frames_var,
        ![id].fps = fps_var,
        ![id].delay_ms = delay_ms_of(audio_delay_frames_var, fps_var),
        ![id].target = delay_target_var,
        ![id].tone_at_call = [freq |-> Max(MinToneFreq, tone_freq_var),
                              dur |-> Max(MinToneMs, tone_ms_var),
                              ok |-> FALSE],
        ![id].flash_ms_at_call = flash_ms_var]]

\* _perform_test_events with "frames > 0" for "frames >= 0": a delay of 0
\* takes the branches of a negative delay
perform_test_events_zero_negative(st, id, parses, ok) ==
    LET frames == audio_delay_frames_var
        delay_ms == delay_ms_of(frames, fps_var)
        s1 == read_settings(st, id)
    IN  IF ~parses
        THEN [st EXCEPT !.tests = [@ EXCEPT ![id].performed = @ + 1,
                                            ![id].raised = TRUE]]
        ELSE IF delay_target_var = "Audio"
        THEN IF frames > 0
             THEN beep_later(flash_on(s1, id), id, delay_ms, ok)
             ELSE flash_after(do_beep(s1, id, FALSE, 0, 0, ok), id, delay_ms)
        ELSE IF frames > 0
             THEN flash_later(do_beep(s1, id, FALSE, 0, 0, ok), id, delay_ms)
             ELSE beep_later(flash_on(s1, id), id, delay_ms, ok)

\* _perform_test_events; parses: the FPS combobox holds a number
perform_test_events(st, id, parses, ok) ==
    LET frames == audio_delay_frames_var
        delay_ms == delay_ms_of(frames, fps_var)
        target == delay_target_var
        s1 == read_settings(st, id)
    IN  IF ~parses
        THEN [st EXCEPT !.tests = [@ EXCEPT ![id].performed = @ + 1,
                                            ![id].raised = TRUE]]
        ELSE IF target = "Audio"
        THEN IF frames >= 0
             THEN beep_later(flash_on(s1, id), id, delay_ms, ok)
             ELSE flash_after(do_beep(s1, id, FALSE, 0, 0, ok), id, delay_ms)
        ELSE IF frames >= 0
             THEN flash_later(do_beep(s1, id, FALSE, 0, 0, ok), id, delay_ms)
             ELSE beep_later(flash_on(s1, id), id, delay_ms, ok)

\* show_step with an off-by-one end test: the test runs in place of the "1"
show_step_skips_last(st, id, i, step, parses, ok) ==
    IF i >= Len(CountSeq) - 1
    THEN perform_test_events([st EXCEPT !.text = ""], id, parses, ok)
    ELSE LET s1 == [st EXCEPT !.bg = "normal",
                              !.text = CountSeq[i + 1],
                              !.tests = [@ EXCEPT ![id].shown = Append(@, CountSeq[i + 1])]]
             s2 == IF countdown_beeps_var
                   THEN do_beep(s1, id, TRUE, CountFreqs[i + 1], CueMs, ok)
                   ELSE s1
         IN  [s2 EXCEPT !.aq = @ \cup {AfterItem("show_step", id, step, i + 1)},
                        !.tests = [@ EXCEPT ![id].waits = Append(@, step)]]

\* show_step playing its cue whatever countdown_beeps_var holds
show_step_always_cues(st, id, i, step, parses, ok) ==
    IF i >= Len(CountSeq)
    THEN perform_test_events([st EXCEPT !.text = ""], id, parses, ok)
    ELSE LET s1 == [st EXCEPT !.bg = "normal",
                              !.text = CountSeq[i + 1],
                              !.tests = [@ EXCEPT ![id].shown = Append(@, CountSeq[i + 1])]]
             s2 == do_beep(s1, id, TRUE, CountFreqs[i + 1], CueMs, ok)
         IN  [s2 EXCEPT !.aq = @ \cup {AfterItem("show_step", id, step, i + 1)},
                        !.tests = [@ EXCEPT ![id].waits = Append(@, step)]]

\* show_step(i) of _run_with_countdown, i counted from 0 as in the source
show_step(st, id, i, step, parses, ok) ==
    IF i >= Len(CountSeq)
    THEN perform_test_events([st EXCEPT !.text = ""], id, parses, ok)
    ELSE LET s1 == [st EXCEPT !.bg = "normal",
                              !.text = CountSeq[i + 1],
                              !.tests = [@ EXCEPT ![id].shown = Append(@, CountSeq[i + 1])]]
             s2 == IF countdown_beeps_var
                   THEN do_beep(s1, id, TRUE, CountFreqs[i + 1], CueMs, ok)
                   ELSE s1
         IN  [s2 EXCEPT !.aq = @ \cup {AfterItem("show_step", id, step, i + 1)},
                        !.tests = [@ EXCEPT ![id].waits = Append(@, step)]]

\* _run_with_countdown
run_with_countdown(st, id, parses, ok) ==
    show_step(st, id, 0, Max(MinStepMs, countdown_step_ms_var), parses, ok)

\* run_test taking the countdown whatever countdown_var holds
run_test_always_countdown(st, id, src, parses, ok) ==
    LET s1 == [st EXCEPT !.tests = [@ EXCEPT ![id] =
                  [NoTest EXCEPT !.src = src, !.with_countdown = countdown_var]]]
    IN  run_with_countdown(s1, id, parses, ok)

\* run_test, as call number id, from the UI thread or from _repeat_tick
run_test(st, id, src, parses, ok) ==
    LET s1 == [st EXCEPT !.tests = [@ EXCEPT ![id] =
                  [NoTest EXCEPT !.src = src, !.with_countdown = countdown_var]]]
    IN  IF countdown_var
        THEN run_with_countdown(s1, id, parses, ok)
        ELSE perform_test_events(s1, id, parses, ok)

---------------------------------------------------------------------------
(* Initial state: SyncApp.__init__ *)

Init ==
    /\ fps_var = <<24, 1>>
    /\ audio_delay_frames_var = 0
    /\ delay_target_var = "Audio"
    /\ tone_freq_var = 1000
    /\ tone_ms_var = 150
    /\ flash_ms_var = 150
    /\ repeat_var = FALSE
    /\ repeat_interval_ms_var = 1000
    /\ countdown_var = FALSE
    /\ countdown_step_ms_var = 700
    /\ countdown_beeps_var = TRUE
    /\ running_repeat = FALSE
    /\ repeat_timer = None
    /\ flash_bg = "normal"
    /\ center_text = "Ready"
    /\ audio_backend \in {"winsound", "simpleaudio", "none"}
    /\ after_queue = {}
    /\ beep_timers = {}
    /\ repeat_timers = {}
    /\ tests = [id \in 1..MaxTests |-> NoTest]
    /\ edits = 0

repeat_state == <<repeat_var, running_repeat, repeat_timer, repeat_timers>>

\* the warning of __init__ when no audio backend was found
StartupWarning == audio_backend = "none"

---------------------------------------------------------------------------
(* The user edits a setting (UI thread) *)

SetFps(v) ==
    /\ edits < MaxEdits
    /\ edits' = edits + 1
    /\ fps_var' = v
    /\ UNCHANGED <<audio_delay_frames_var, delay_target_var, tone_freq_var,
                   tone_ms_var, flash_ms_var, countdown_var, countdown_step_ms_var,
                   countdown_beeps_var, repeat_interval_ms_var>>
    /\ NoTestStep
    /\ UNCHANGED <<repeat_state, audio_backend>>

\* the ttk.Scale writes its position to audio_delay_frames_var
MoveSlider(v) ==
    /\ edits < MaxEdits
    /\ edits' = edits + 1
    /\ audio_delay_frames_var' = v
    /\ UNCHANGED <<fps_var, delay_target_var, tone_freq_var,
                   tone_ms_var, flash_ms_var, countdown_var, countdown_step_ms_var,
                   countdown_beeps_var, repeat_interval_ms_var>>
    /\ NoTestStep
    /\ UNCHANGED <<repeat_state, audio_backend>>

\* nudge_delay(delta_frames), bound to <Left>, <Right>, <Up>, <Down>
nudge_delay(delta_frames) ==
    /\ edits < MaxEdits
    /\ edits' = edits + 1
    /\ audio_delay_frames_var' = audio_delay_frames_var + delta_frames
    /\ UNCHANGED <<fps_var, delay_target_var, tone_freq_var,
                   tone_ms_var, flash_ms_var, countdown_var, countdown_step_ms_var,
                   countdown_beeps_var, repeat_interval_ms_var>>
    /\ NoTestStep
    /\ UNCHANGED <<repeat_state, audio_backend>>

SetDelayTarget(v) ==
    /\ edits < MaxEdits
    /\ edits' = edits + 1
    /\ delay_target_var' = v
    /\ UNCHANGED <<fps_var, audio_delay_frames_var, tone_freq_var,
                   tone_ms_var, flash_ms_var, countdown_var, countdown_step_ms_var,
                   countdown_beeps_var, repeat_interval_ms_var>>
    /\ NoTestStep
    /\ UNCHANGED <<repeat_state, audio_backend>>

SetToneFreq(v) ==
    /\ edits < MaxEdits
    /\ edits' = edits + 1
    /\ tone_freq_var' = v
    /\ UNCHANGED <<fps_var, audio_delay_frames_var, delay_target_var,
                   tone_ms_var, flash_ms_var, countdown_var, countdown_step_ms_var,
                   countdown_beeps_var, repeat_interval_ms_var>>
    /\ NoTestStep
    /\ UNCHANGED <<repeat_state, audio_backend>>

SetToneMs(v) ==
    /\ edits < MaxEdits
    /\ edits' = edits + 1
    /\ tone_ms_var' = v
    /\ UNCHANGED <<fps_var, audio_delay_frames_var, delay_target_var, tone_freq_var,
                   flash_ms_var, countdown_var, countdown_step_ms_var,
                   countdown_beeps_var, repeat_interval_ms_var>>
    /\ NoTestStep
    /\ UNCHANGED <<repeat_state, audio_backend>>

SetFlashMs(v) ==
    /\ edits < MaxEdits
    /\ edits' = edits + 1
    /\ flash_ms_var' = v
    /\ UNCHANGED <<fps_var, audio_delay_frames_var, delay_target_var, tone_freq_var,
                   tone_ms_var, countdown_var, countdown_step_ms_var,
                   countdown_beeps_var, repeat_interval_ms_var>>
    /\ NoTestStep
    /\ UNCHANGED <<repeat_state, audio_backend>>

ToggleCountdown ==
    /\ edits < MaxEdits
    /\ edits' = edits + 1
    /\ countdown_var' = ~countdown_var
    /\ UNCHANGED <<fps_var, audio_delay_frames_var, delay_target_var, tone_freq_var,
                   tone_ms_var, flash_ms_var, countdown_step_ms_var,
                   countdown_beeps_var, repeat_interval_ms_var>>
    /\ NoTestStep
    /\ UNCHANGED <<repeat_state, audio_backend>>

SetCountdownStep(v) ==
    /\ edits < MaxEdits
    /\ edits' = edits + 1
    /\ countdown_step_ms_var' = v
    /\ UNCHANGED <<fps_var, audio_delay_frames_var, delay_target_var, tone_freq_var,
                   tone_ms_var, flash_ms_var, countdown_var,
                   countdown_beeps_var, repeat_interval_ms_var>>
    /\ NoTestStep
    /\ UNCHANGED <<repeat_state, audio_backend>>

ToggleCountdownBeeps ==
    /\ edits < MaxEdits
    /\ edits' = edits + 1
    /\ countdown_beeps_var' = ~countdown_beeps_var
    /\ UNCHANGED <<fps_var, audio_delay_frames_var, delay_target_var, tone_freq_var,
                   tone_ms_var, flash_ms_var, countdown_var, countdown_step_ms_var,
                   repeat_interval_ms_var>>
    /\ NoTestStep
    /\ UNCHANGED <<repeat_state, audio_backend>>

SetRepeatInterval(v) ==
    /\ edits < MaxEdits
    /\ edits' = edits + 1
    /\ repeat_interval_ms_var' = v
    /\ UNCHANGED <<fps_var, audio_delay_frames_var, delay_target_var, tone_freq_var,
                   tone_ms_var, flash_ms_var, countdown_var, countdown_step_ms_var,
                   countdown_beeps_var>>
    /\ NoTestStep
    /\ UNCHANGED <<repeat_state, audio_backend>>

---------------------------------------------------------------------------
(* The test, from the UI thread *)

\* the Test button or <space>: run_test
PressTest(parses, ok) ==
    /\ FreeIds # {}
    /\ SetUi(run_test(Ui, NewTestId, "ui", parses, ok))
    /\ UNCHANGED <<settings, edits, repeat_state, audio_backend>>

\* a pending root.after(.., self._flash_on) runs
FlashOnFire(item) ==
    /\ item \in after_queue
    /\ item.fn = "flash_on"
    /\ SetUi(flash_on([Ui EXCEPT !.aq = @ \ {item}], item.inv))
    /\ UNCHANGED <<settings, edits, repeat_state, audio_backend>>

\* a pending root.after(.., self._flash_off) runs
FlashOffFire(item) ==
    /\ item \in after_queue
    /\ item.fn = "flash_off"
    /\ SetUi(flash_off([Ui EXCEPT !.aq = @ \ {item}]))
    /\ UNCHANGED <<settings, edits, repeat_state, audio_backend>>

\* a pending root.after(step, lambda: show_step(i+1)) runs
ShowStepFire(item, parses, ok) ==
    /\ item \in after_queue
    /\ item.fn = "show_step"
    /\ SetUi(show_step([Ui EXCEPT !.aq = @ \ {item}], item.inv, item.i, item.ms,
                       parses, ok))
    /\ UNCHANGED <<settings, edits, repeat_state, audio_backend>>

\* a pending threading.Timer(.., self._do_beep) runs _do_beep on its thread
BeepTimerFire(item, ok) ==
    /\ item \in beep_timers
    /\ SetUi(do_beep([Ui EXCEPT !.bt = @ \ {item}], item.inv, FALSE, 0, 0, ok))
    /\ UNCHANGED <<settings, edits, repeat_state, audio_backend>>

---------------------------------------------------------------------------
(* Repeat *)

\* the identity of a new Timer object: the smallest one no live timer has
NewTimerId(timers) ==
    CHOOSE i \in 1..(Cardinality(timers) + 1) :
        /\ \A t \in timers : t.id # i
        /\ \A j \in 1..(Cardinality(timers) + 1) : (\A t \in timers : t.id # j) => i <= j

\* _schedule_next_repeat without the floor: the interval as entered
start_repeat_timer_no_floor(timers) ==
    LET interval == repeat_interval_ms_var
        id == NewTimerId(timers)
    IN  /\ repeat_timers' = timers \cup {[id |-> id, pc |-> "waiting", ms |-> interval]}
        /\ repeat_timer' = id

\* the body of _schedule_next_repeat past its guard: a new Timer is stored
\* in _repeat_timer and started
start_repeat_timer(timers) ==
    LET interval == Max(MinIntervalMs, repeat_interval_ms_var)
        id == NewTimerId(timers)
    IN  /\ repeat_timers' = timers \cup {[id |-> id, pc |-> "waiting", ms |-> interval]}
        /\ repeat_timer' = id

\* Timer.cancel(): a timer still waiting never calls its function
cancel(timers, id) ==
    {t \in timers : ~(t.id = id /\ t.pc = "waiting")}

\* the Repeat checkbutton: repeat_var flips, then _toggle_repeat
toggle_repeat ==
    /\ repeat_var' = ~repeat_var
    /\ IF repeat_var'
       THEN /\ running_repeat' = TRUE
            /\ start_repeat_timer(repeat_timers)
       ELSE /\ running_repeat' = FALSE
            /\ IF repeat_timer # None
               THEN /\ repeat_timers' = cancel(repeat_timers, repeat_timer)
                    /\ repeat_timer' = None
               ELSE UNCHANGED <<repeat_timers, repeat_timer>>
    /\ NoTestStep
    /\ UNCHANGED <<settings, edits, audio_backend>>

\* a repeat timer expires: Timer.run calls _repeat_tick, which returns at
\* once unless _running_repeat is set
RepeatTimerFire(t) ==
    /\ t \in repeat_timers
    /\ t.pc = "waiting"
    /\ repeat_timers' = IF running_repeat
                        THEN (repeat_timers \ {t}) \cup {[t EXCEPT !.pc = "checked"]}
                        ELSE repeat_timers \ {t}
    /\ NoTestStep
    /\ UNCHANGED <<settings, edits, audio_backend, repeat_var, running_repeat,
                   repeat_timer>>

\* _repeat_tick without its try/finally: a run_test that raises ends the
\* timer thread, and nothing schedules the next tick
repeat_tick_without_finally(t, parses, ok) ==
    /\ t \in repeat_timers
    /\ t.pc = "checked"
    /\ FreeIds # {}
    /\ LET st == run_test(Ui, NewTestId, "tick", parses, ok)
       IN  /\ SetUi([st EXCEPT !.tests = [@ EXCEPT ![NewTestId].repeat_on = running_repeat]])
           /\ repeat_timers' = IF st.tests[NewTestId].raised
                               THEN repeat_timers \ {t}
                               ELSE (repeat_timers \ {t}) \cup {[t EXCEPT !.pc = "finally"]}
    /\ UNCHANGED <<settings, edits, audio_backend, repeat_var, running_repeat,
                   repeat_timer>>

\* _repeat_tick: try: self.run_test(); whether or not it raises, the
\* finally clause is next
repeat_tick_run_test(t, parses, ok) ==
    /\ t \in repeat_timers
    /\ t.pc = "checked"
    /\ FreeIds # {}
    /\ LET st == run_test(Ui, NewTestId, "tick", parses, ok)
       IN  SetUi([st EXCEPT !.tests = [@ EXCEPT ![NewTestId].repeat_on = running_repeat]])
    /\ repeat_timers' = (repeat_timers \ {t}) \cup {[t EXCEPT !.pc = "finally"]}
    /\ UNCHANGED <<settings, edits, audio_backend, repeat_var, running_repeat,
                   repeat_timer>>

\* _repeat_tick: finally: self._schedule_next_repeat(), up to its guard
repeat_tick_finally(t) ==
    /\ t \in repeat_timers
    /\ t.pc = "finally"
    /\ repeat_timers' = IF running_repeat
                        THEN (repeat_timers \ {t}) \cup {[t EXCEPT !.pc = "sched"]}
                        ELSE repeat_timers \ {t}
    /\ NoTestStep
    /\ UNCHANGED <<settings, edits, audio_backend, repeat_var, running_repeat,
                   repeat_timer>>

\* _schedule_next_repeat on the tick's thread, past its guard; the thread
\* ends when it returns
schedule_next_repeat(t) ==
    /\ t \in repeat_timers
    /\ t.pc = "sched"
    /\ start_repeat_timer(repeat_timers \ {t})
    /\ NoTestStep
    /\ UNCHANGED <<settings, edits, audio_backend, repeat_var, running_repeat>>

---------------------------------------------------------------------------

\* the user edits the timing and tone settings
EditTiming ==
    \/ \E v \in FpsChoices : SetFps(v)
    \/ \E v \in SliderChoices : MoveSlider(v)
    \/ \E d \in NudgeDeltas : nudge_delay(d)
    \/ \E v \in {"Audio", "Visual"} : SetDelayTarget(v)
    \/ \E v \in ToneFreqChoices : SetToneFreq(v)
    \/ \E v \in ToneMsChoices : SetToneMs(v)
    \/ \E v \in FlashMsChoices : SetFlashMs(v)

\* the user edits the countdown settings
EditCountdown ==
    \/ ToggleCountdown
    \/ \E v \in StepMsChoices : SetCountdownStep(v)
    \/ ToggleCountdownBeeps

\* the user presses Test
UserTest ==
    \E parses \in BOOLEAN, ok \in play_beep(audio_backend) : PressTest(parses, ok)

\* a pending flash-off runs
FlashOff ==
    \E item \in after_queue : FlashOffFire(item)

\* the delayed second event of a test runs
SecondEvent ==
    \/ \E item \in after_queue : FlashOnFire(item)
    \/ \E item \in beep_timers, ok \in play_beep(audio_backend) : BeepTimerFire(item, ok)

CountdownPath ==
    \E item \in after_queue, parses \in BOOLEAN, ok \in play_beep(audio_backend) :
        ShowStepFire(item, parses, ok)

\* repeat can be switched off at any time, and on while fewer than cap
\* timers are alive
CanToggle(cap) == repeat_var \/ Cardinality(repeat_timers) < cap

\* the threads of the repeat timers
RepeatThreads ==
    \/ \E t \in repeat_timers : RepeatTimerFire(t)
    \/ \E t \in repeat_timers, parses \in BOOLEAN, ok \in play_beep(audio_backend) :
          repeat_tick_run_test(t, parses, ok)
    \/ \E t \in repeat_timers : repeat_tick_finally(t)
    \/ \E t \in repeat_timers : schedule_next_repeat(t)

\* the Repeat checkbutton and the threads of the repeat timers
RepeatPath ==
    \/ CanToggle(MaxTimers) /\ toggle_repeat
    \/ RepeatThreads

\* The whole program
Next ==
    \/ EditTiming
    \/ EditCountdown
    \/ \E v \in IntervalMsChoices : SetRepeatInterval(v)
    \/ UserTest
    \/ FlashOff
    \/ SecondEvent
    \/ CountdownPath
    \/ RepeatPath

Spec == Init /\ [][Next]_vars

\* The event sequencer: tests started by the user, without countdown, while
\* the timing and tone settings are edited
NextSeq ==
    \/ EditTiming
    \/ UserTest
    \/ FlashOff
    \/ SecondEvent

SpecSeq == Init /\ [][NextSeq]_vars

\* The countdown: tests started by the user while the countdown settings
\* and the delay are edited
NextCd ==
    \/ EditCountdown
    \/ \E v \in SliderChoices : MoveSlider(v)
    \/ UserTest
    \/ FlashOff
    \/ SecondEvent
    \/ CountdownPath

SpecCd == Init /\ [][NextCd]_vars

\* Repeat: tests started by the repeat ticks, with or without countdown;
\* the interval stays as constructed and the delay stays 0, so no second
\* event is ever pending
NextRep ==
    \/ ToggleCountdown
    \/ FlashOff
    \/ CountdownPath
    \/ RepeatPath

SpecRep == Init /\ [][NextRep]_vars

\* what the user can type into the FPS combobox: a rate of its list, 0, a
\* negative number, a positive number below the floor of frames_to_ms
FpsEntered == {<<24, 1>>, <<0, 1>>, <<-24, 1>>, <<1, 2000000>>}

\* slider positions near 0
SmallFrames == {0, -1, 25, 100}

\* The frame rate: any number is typed into the FPS combobox while tests
\* run with small delays
NextFps ==
    \/ \E v \in FpsEntered : SetFps(v)
    \/ \E v \in SmallFrames : MoveSlider(v)
    \/ UserTest
    \/ FlashOff
    \/ SecondEvent

SpecFps == Init /\ [][NextFps]_vars

\* what the user can type into the two timing entries: values above and
\* below the floor, 0 and a negative number
StepMsEntered == {700, 100, 0, -50}
IntervalMsEntered == {1000, 100, 0, -50}

\* The timers of the countdown and of repeat while any number is typed into
\* their entries. The user tries one feature at a time: tests with a
\* countdown are started by hand while repeat is off, and repeat runs with
\* the countdown off; the delay stays 0 and the flash is left lit
NextFloors ==
    \/ (~repeat_var /\ repeat_timers = {}) /\ ToggleCountdown
    \/ \E v \in StepMsEntered : SetCountdownStep(v)
    \/ \E v \in IntervalMsEntered : SetRepeatInterval(v)
    \/ countdown_var /\ UserTest
    \/ CountdownPath
    \/ (~countdown_var /\ CanToggle(MaxTimers)) /\ toggle_repeat
    \/ RepeatThreads

SpecFloors == Init /\ [][NextFloors]_vars

\* Repeat switched off and on again while the thread of a tick is still
\* running: up to MaxRaceTimers timers alive; countdown off, delay 0
NextRace ==
    \/ CanToggle(MaxRaceTimers) /\ toggle_repeat
    \/ RepeatThreads
    \/ FlashOff

SpecRace == Init /\ [][NextRace]_vars

\* The flash: tests with and without a delay while the flash length is
\* edited; the Tk main loop runs every root.after callback that is due, so a
\* pending _flash_off is not postponed for ever
NextFlash ==
    \/ \E v \in FlashMsChoices : SetFlashMs(v)
    \/ \E v \in {-600, 1200} : MoveSlider(v)
    \/ UserTest
    \/ FlashOff
    \/ SecondEvent

SpecFlash == Init /\ [][NextFlash]_vars /\ WF_vars(FlashOff)

\* SyncApp.__init__ with room in the history for MaxOverlap tests in flight
InitOverlap ==
    /\ fps_var = <<24, 1>>
    /\ audio_delay_frames_var = 0
    /\ delay_target_var = "Audio"
    /\ tone_freq_var = 1000
    /\ tone_ms_var = 150
    /\ flash_ms_var = 150
    /\ repeat_var = FALSE
    /\ repeat_interval_ms_var = 1000
    /\ countdown_var = FALSE
    /\ countdown_step_ms_var = 700
    /\ countdown_beeps_var = TRUE
    /\ running_repeat = FALSE
    /\ repeat_timer = None
    /\ flash_bg = "normal"
    /\ center_text = "Ready"
    /\ audio_backend \in {"winsound", "simpleaudio", "none"}
    /\ after_queue = {}
    /\ beep_timers = {}
    /\ repeat_timers = {}
    /\ tests = [id \in 1..MaxOverlap |-> NoTest]
    /\ edits = 0

\* Overlapping tests: Test is pressed again, with or without countdown,
\* while an earlier test is in flight; the delay stays 0
NextOverlap ==
    \/ ToggleCountdown
    \/ UserTest
    \/ FlashOff
    \/ CountdownPath

SpecOverlap == InitOverlap /\ [][NextOverlap]_vars

---------------------------------------------------------------------------
(* Properties *)

Performed(id) == tests[id].performed > 0 /\ ~tests[id].raised

Count(seq, x) == Cardinality({k \in DOMAIN seq : seq[k] = x})

PendingFlashOn(id) == {item \in after_queue : item.fn = "flash_on" /\ item.inv = id}
PendingBeep(id) == {item \in beep_timers : item.inv = id}

\* the truth table of the event order
FirstByTable(target, frames) ==
    IF (target = "Audio" /\ frames >= 0) \/ (target = "Visual" /\ frames < 0)
    THEN "flash"
    ELSE "beep"

Other(event) == IF event = "flash" THEN "beep" ELSE "flash"

\* C1: in every call of the event sequencer the events run in the order of
\* the truth table: the flash first when (Audio, frames >= 0) or (Visual,
\* frames < 0), the beep first otherwise, a delay of 0 frames counting as
\* non-negative; the event still pending is the second one of the table.
C1_OrderFollowsTable ==
    \A id \in DOMAIN tests :
        Performed(id) =>
            LET t == tests[id]
                first == FirstByTable(t.target, t.frames)
            IN  /\ Len(t.events) >= 1
                /\ t.events[1] = first
                /\ Len(t.events) >= 2 => t.events[2] = Other(first)
                /\ PendingFlashOn(id) # {} => first = "beep"
                /\ PendingBeep(id) # {} => first = "flash"

C1_Witness ==
    \E id \in DOMAIN tests :
        /\ Performed(id)
        /\ tests[id].target = "Visual"
        /\ tests[id].frames < 0
        /\ tests[id].second_via = "timer"
        /\ tests[id].events = <<"flash", "beep">>

\* C2: every call of the event sequencer produces exactly one flash and
\* exactly one beep: each has run once or is pending once, never both and
\* never twice.
C2_OneFlashOneBeep ==
    \A id \in DOMAIN tests :
        /\ tests[id].performed <= 1
        /\ Performed(id) =>
              /\ Count(tests[id].events, "flash") + Cardinality(PendingFlashOn(id)) = 1
              /\ Count(tests[id].events, "beep") + Cardinality(PendingBeep(id)) = 1

C2_Witness ==
    \E id \in DOMAIN tests :
        /\ Performed(id)
        /\ tests[id].delay_ms = 0
        /\ tests[id].events = <<"flash", "beep">>

\* C3: once repeat is disabled no repeat tick invokes run_test until repeat
\* is enabled again, whatever the interleaving of the UI thread and the
\* timer thread: every run_test call made by _repeat_tick is made while
\* _running_repeat is set.
C3_NoTickTestWhileDisabled ==
    \A id \in DOMAIN tests :
        tests[id].src = "tick" => tests[id].repeat_on

PendingShowStep(id) == {item \in after_queue : item.fn = "show_step" /\ item.inv = id}

IsPrefix(s, t) == Len(s) <= Len(t) /\ \A k \in DOMAIN s : s[k] = t[k]

C4_Inv ==
    \A id \in DOMAIN tests :
        LET t == tests[id]
        IN  t.with_countdown =>
              /\ IsPrefix(t.shown, CountSeq)
              /\ Len(t.shown) >= 1
              /\ Len(t.waits) = Len(t.shown)
              /\ \A k \in DOMAIN t.waits : t.waits[k] = t.waits[1] /\ t.waits[k] >= MinStepMs
              /\ t.performed <= 1
              /\ t.performed = 1 => t.shown = CountSeq
              /\ t.performed = 0 =>
                    /\ t.events = <<>>
                    /\ Cardinality(PendingShowStep(id)) = 1
                    /\ \A item \in PendingShowStep(id) :
                          item.i = Len(t.shown) /\ item.ms = t.waits[1]
              /\ t.performed = 1 => PendingShowStep(id) = {}

\* the step of a countdown that invokes the event sequencer
C4_RunningStep ==
    \A id \in DOMAIN tests :
        (tests[id].with_countdown /\ InFlight(id)
            /\ tests[id].performed = 0 /\ tests'[id].performed = 1)
        => /\ tests[id].shown = CountSeq
           /\ center_text' \in {"", "FLASH"}

\* the first step of a countdown: run_test shows "3" and waits stepMs
C4_FirstStep ==
    \A id \in DOMAIN tests :
        (~InFlight(id) /\ tests'[id].with_countdown /\ tests'[id].shown = <<"3">>)
        => /\ countdown_var
           /\ tests'[id].waits = <<Max(MinStepMs, countdown_step_ms_var)>>
           /\ center_text' = "3"

\* C4: with countdown enabled a run_test call shows "3", "2", "1" in that
\* order, each followed by one wait of stepMs (at least 200 ms, the same for
\* the three), and only after the third wait clears the count and invokes the
\* event sequencer, once.
C4_CountdownThenTestOnce ==
    /\ []C4_Inv
    /\ [][C4_RunningStep]_vars
    /\ [][C4_FirstStep]_vars

C4_Witness ==
    \E id \in DOMAIN tests :
        /\ tests[id].with_countdown
        /\ tests[id].shown = CountSeq
        /\ Len(tests[id].waits) = 3
        /\ Performed(id)
        /\ Len(tests[id].events) >= 1

\* C5: whenever the computed delay_ms is 0 the second event is invoked
\* within the same call, in each of the four branches, and is handed neither
\* to root.after nor to a threading.Timer.
C5_ZeroDelayIsDirect ==
    \A id \in DOMAIN tests :
        (Performed(id) /\ tests[id].delay_ms = 0) => tests[id].second_via = "direct"

\* while repeat is enabled a tick is pending or in progress
C6_TickAlive == running_repeat => repeat_timers # {}

\* enabling starts one timer of intervalMs and runs no test
C6_EnableStep ==
    (~running_repeat /\ running_repeat')
    => /\ \E n \in repeat_timers' :
             /\ n.pc = "waiting"
             /\ n.ms = Max(MinIntervalMs, repeat_interval_ms_var)
             /\ repeat_timers' = repeat_timers \cup {n}
             /\ n \notin repeat_timers
       /\ tests' = Live

\* a tick that found repeat enabled invokes the test path once, by the
\* countdown setting of that moment, and goes on to its finally clause
C6_TickStep ==
    \A t \in repeat_timers :
        (t.pc = "checked" /\ t \notin repeat_timers')
        => /\ [t EXCEPT !.pc = "finally"] \in repeat_timers'
           /\ \E id \in DOMAIN tests :
                 /\ ~InFlight(id)
                 /\ tests'[id].src = "tick"
                 /\ tests'[id].with_countdown = countdown_var
                 /\ IF countdown_var
                    THEN tests'[id].shown = <<"3">> /\ tests'[id].performed = 0
                    ELSE tests'[id].performed = 1
                 /\ \A other \in DOMAIN tests \ {id} : tests'[other] = Live[other]

\* after the test path, with repeat still enabled, the tick starts one timer
\* of intervalMs
C6_RescheduleStep ==
    \A t \in repeat_timers :
        /\ (t.pc = "finally" /\ running_repeat)
              => [t EXCEPT !.pc = "sched"] \in repeat_timers' \/ t \in repeat_timers'
        /\ (t.pc = "sched" /\ t \notin repeat_timers')
              => \E n \in repeat_timers' :
                    /\ n.pc = "waiting"
                    /\ n.ms = Max(MinIntervalMs, repeat_interval_ms_var)
                    /\ repeat_timers' = (repeat_timers \ {t}) \cup {n}
                    /\ repeat_timer' = n.id

\* C6: enabling repeat schedules a first tick after intervalMs and runs no
\* test; every tick that finds repeat enabled invokes the test path once
\* (countdown or event sequencer, by the countdown setting read then) and,
\* repeat still enabled, schedules one next tick after intervalMs, also when
\* the test path raised; so while repeat is enabled a tick is always pending
\* or in progress.
C6_RepeatKeepsTicking ==
    /\ []C6_TickAlive
    /\ [][C6_EnableStep]_vars
    /\ [][C6_TickStep]_vars
    /\ [][C6_RescheduleStep]_vars

C6_Witness ==
    /\ running_repeat
    /\ \E t \in repeat_timers : t.pc = "waiting"
    /\ \E id \in DOMAIN tests : tests[id].src = "tick" /\ Performed(id)

\* C7: a pair the event sequencer has scheduled is never cancelled, and a
\* setting changed afterwards does not touch it: each event has run or is
\* pending, the pending event keeps the delay computed at the call, and the
\* tone and the flash of the pair are those of the settings at the call.
C7_InFlightKeepsSettings ==
    \A id \in DOMAIN tests :
        Performed(id) =>
            LET t == tests[id]
            IN  /\ Count(t.events, "flash") + Cardinality(PendingFlashOn(id)) = 1
                /\ Count(t.events, "beep") + Cardinality(PendingBeep(id)) = 1
                /\ \A item \in PendingFlashOn(id) \cup PendingBeep(id) : item.ms = t.delay_ms
                /\ Count(t.events, "beep") = 1 =>
                      /\ t.tone.freq = t.tone_at_call.freq
                      /\ t.tone.dur = t.tone_at_call.dur
                /\ Count(t.events, "flash") = 1 => t.flash_ms = t.flash_ms_at_call

\* C8: when the tone of a test fails (play_beep returns False) the flash of
\* the same test is still triggered, at once or after its delay; the failure
\* is shown as a warning and the tone is not played again.
C8_FailedBeepIsLocal ==
    \A id \in DOMAIN tests :
        (Performed(id) /\ Count(tests[id].events, "beep") >= 1 /\ ~tests[id].tone.ok)
        => /\ Count(tests[id].events, "flash") + Cardinality(PendingFlashOn(id)) = 1
           /\ tests[id].warned
           /\ Count(tests[id].events, "beep") = 1
           /\ PendingBeep(id) = {}

C8_Witness ==
    \E id \in DOMAIN tests :
        /\ Performed(id)
        /\ ~tests[id].tone.ok
        /\ tests[id].warned
        /\ tests[id].second_via = "after"
        /\ tests[id].second_ms > 0
        /\ tests[id].events = <<"beep", "flash">>

\* C9: the delay between the two events of a test is
\* round(1000 * |delayFrames| / fps) ms, the nearest integer (to even on a
\* tie), whatever the sign of delayFrames, and it is the delay handed to the
\* timer of the second event; fps 24, Audio, +12 frames gives 500 ms and
\* fps 24, Visual, -6 frames gives 250 ms, the flash first and the beep on a
\* timer of that delay.
C9_DelayIsRoundedFrames ==
    \A id \in DOMAIN tests :
        Performed(id) =>
            LET t == tests[id]
                exact == (1000 \div FrameDen) * Abs(t.frames) * t.fps[2]
                got == t.delay_ms * t.fps[1]
                scenario1 == t.fps = <<24, 1>> /\ t.target = "Audio" /\ t.frames = 1200
                scenario2 == t.fps = <<24, 1>> /\ t.target = "Visual" /\ t.frames = -600
            IN  /\ t.delay_ms >= 0
                /\ 2 * Abs(exact - got) <= t.fps[1]
                /\ 2 * Abs(exact - got) = t.fps[1] => t.delay_ms % 2 = 0
                /\ t.second_via \in {"timer", "after"} => t.second_ms = t.delay_ms
                /\ \A item \in PendingFlashOn(id) \cup PendingBeep(id) : item.ms = t.delay_ms
                /\ scenario1 => t.delay_ms = 500
                /\ scenario2 => t.delay_ms = 250
                /\ (scenario1 \/ scenario2) =>
                      /\ t.events[1] = "flash"
                      /\ t.second_via = "timer"
                      /\ Len(t.events) = 1 => PendingBeep(id) = {[inv |-> id, ms |-> t.delay_ms]}

C9_Witness ==
    \E id \in DOMAIN tests :
        /\ Performed(id)
        /\ tests[id].fps = <<24, 1>>
        /\ tests[id].target = "Visual"
        /\ tests[id].frames = -600
        /\ tests[id].delay_ms = 250
        /\ tests[id].second_ms = 250
        /\ tests[id].events = <<"flash", "beep">>

\* C10: the stored delay stays within the range of the slider, [-80, 80]
\* frames, after any sequence of slider moves and keyboard nudges.
C10_DelayInRange ==
    ScaleFrom <= audio_delay_frames_var /\ audio_delay_frames_var <= ScaleTo

\* a run_test call made with countdown disabled has run the event sequencer
\* in the call itself and has shown no count, played no cue and waited for
\* no step
C11_Inv ==
    \A id \in DOMAIN tests :
        (tests[id].src # "none" /\ ~tests[id].with_countdown)
        => /\ tests[id].performed = 1
           /\ tests[id].shown = <<>>
           /\ tests[id].waits = <<>>
           /\ tests[id].cues = <<>>
           /\ PendingShowStep(id) = {}
           /\ ~tests[id].raised => Len(tests[id].events) >= 1

\* the step of a run_test call: the path it takes is that of countdown_var
C11_CallStep ==
    \A id \in DOMAIN tests :
        (Live[id].src = "none" /\ tests'[id].src # "none")
        => /\ tests'[id].with_countdown = countdown_var
           /\ ~countdown_var => (tests'[id].performed = 1 /\ center_text' \in {center_text, "FLASH"})

\* C11: with countdown disabled run_test invokes the event sequencer
\* directly, within the call: no count is displayed, no cue is played and
\* nothing waits before the first event.
C11_NoCountdownIsDirect ==
    /\ []C11_Inv
    /\ [][C11_CallStep]_vars

C11_Witness ==
    \E id \in DOMAIN tests :
        /\ tests[id].src = "ui"
        /\ ~tests[id].with_countdown
        /\ Performed(id)
        /\ tests[id].shown = <<>>
        /\ Len(tests[id].events) >= 1
        /\ edits > 0

\* the frame rate of the state is at least the floor 1e-6
AtLeastFloor(fps) == fps[1] * EpsDen >= fps[2]

\* C12: frames_to_ms never divides by zero: for every frame rate entered,
\* 0 and negative ones included, its divisor is positive; its value is
\* 1000 * frames / fps whenever fps > 0, and it is 0 for 0 frames.  So is
\* the delay of every test: the nearest integer to 1000 * |frames| / fps
\* whenever fps > 0.
C12_FramesToMsAnyFps ==
    LET ms == frames_to_ms(audio_delay_frames_var, fps_var)
    IN  /\ ms[2] > 0
        /\ fps_var[1] > 0 =>
              ms[1] * fps_var[1] = (1000 \div FrameDen) * audio_delay_frames_var * fps_var[2] * ms[2]
        /\ audio_delay_frames_var = 0 => ms[1] = 0
        /\ \A id \in DOMAIN tests :
              (Performed(id) /\ tests[id].fps[1] > 0) =>
                  2 * Abs((1000 \div FrameDen) * Abs(tests[id].frames) * tests[id].fps[2]
                          - tests[id].delay_ms * tests[id].fps[1]) <= tests[id].fps[1]

\* C12, amended: frames_to_ms never divides by zero: for every frame rate
\* entered its divisor is max(fps, 1e-6), which is positive; its value is
\* 1000 * frames / fps whenever fps >= 1e-6 and 1000 * frames / 1e-6 for every
\* smaller fps (0, negative, or positive below 1e-6), and it is 0 for 0
\* frames.  The delay of every test is that value of |frames|, rounded.
C12_FramesToMsFloor ==
    LET ms == frames_to_ms(audio_delay_frames_var, fps_var)
    IN  /\ ms[2] > 0
        /\ AtLeastFloor(fps_var) =>
              ms[1] * fps_var[1] = (1000 \div FrameDen) * audio_delay_frames_var * fps_var[2] * ms[2]
        /\ ~AtLeastFloor(fps_var) =>
              ms[1] = (1000 \div FrameDen) * audio_delay_frames_var * EpsDen * ms[2]
        /\ audio_delay_frames_var = 0 => ms[1] = 0
        /\ \A id \in DOMAIN tests :
              Performed(id) =>
                  LET t == tests[id]
                  IN  /\ AtLeastFloor(t.fps) =>
                            2 * Abs((1000 \div FrameDen) * Abs(t.frames) * t.fps[2]
                                    - t.delay_ms * t.fps[1]) <= t.fps[1]
                      /\ ~AtLeastFloor(t.fps) =>
                            t.delay_ms = (1000 \div FrameDen) * Abs(t.frames) * EpsDen

C12_Witness ==
    \E id \in DOMAIN tests :
        /\ Performed(id)
        /\ tests[id].fps = <<0, 1>>
        /\ tests[id].frames = -1
        /\ tests[id].delay_ms = 10000000
        /\ tests[id].events = <<"beep", "flash">>

\* a step taken by the thread of a repeat timer, past the test of the flag,
\* leaves alone the state the UI thread works on
C13_TimerThreadStep ==
    \A t \in repeat_timers :
        (t.pc \in {"checked", "finally", "sched"} /\ t \notin repeat_timers')
        => UNCHANGED <<repeat_timer, flash_bg, center_text, after_queue>>

\* a step taken by the thread of a delayed beep leaves that state alone too
C13_BeepThreadStep ==
    \A item \in beep_timers :
        item \notin beep_timers'
        => UNCHANGED <<repeat_timer, flash_bg, center_text, after_queue, running_repeat>>

\* _running_repeat changes only in _toggle_repeat, on the UI thread
C13_FlagStep ==
    running_repeat' # running_repeat => repeat_var' # repeat_var

\* C13: the timer threads share nothing mutable with the UI thread but the
\* repeat-enabled flag: no step of a timer thread writes the repeat timer
\* handle, the flash or the display, or the queue of UI callbacks, and only the
\* UI thread writes the flag.
C13_OnlyTheFlagIsShared ==
    /\ [][C13_TimerThreadStep]_vars
    /\ [][C13_BeepThreadStep]_vars
    /\ [][C13_FlagStep]_vars

\* the cue of each count
CueOf(digit) == IF digit = "3" THEN 600 ELSE IF digit = "2" THEN 700 ELSE 800

\* the step that shows a count plays its cue exactly when countdown_beeps_var
\* is set at that step; the step that invokes the event sequencer plays none
C14_CueStep ==
    \A id \in DOMAIN tests :
        LET old == Live[id]
            new == tests'[id]
        IN  new.with_countdown =>
              /\ Len(new.shown) = Len(old.shown) + 1 =>
                    new.cues = IF countdown_beeps_var
                               THEN Append(old.cues, CueOf(new.shown[Len(new.shown)]))
                               ELSE old.cues
              /\ (old.performed = 0 /\ new.performed = 1) => new.cues = old.cues

\* the cues of one countdown are among those of the counts shown and ascend
C14_Inv ==
    \A id \in DOMAIN tests :
        LET t == tests[id]
        IN  /\ Len(t.cues) <= Len(t.shown)
            /\ \A k \in DOMAIN t.cues :
                  /\ \E j \in DOMAIN t.shown : j >= k /\ t.cues[k] = CueOf(t.shown[j])
                  /\ \A j \in DOMAIN t.cues : j < k => t.cues[j] < t.cues[k]

\* C14: on showing each count of a countdown a cue tone is played if and
\* only if "beep on each count" is set at that step; the cues are 600 Hz for
\* "3", 700 Hz for "2" and 800 Hz for "1", ascending; no cue is played when
\* the event sequencer is invoked.
C14_CuesFollowTheCounts ==
    /\ []C14_Inv
    /\ [][C14_CueStep]_vars

C14_Witness ==
    \E id \in DOMAIN tests :
        /\ tests[id].with_countdown
        /\ tests[id].shown = CountSeq
        /\ tests[id].cues = <<600>>
        /\ Performed(id)

\* no repeat timer and no countdown step waits less than 200 ms
C15_Inv ==
    /\ \A t \in repeat_timers : t.ms >= 200
    /\ \A item \in after_queue : item.fn = "show_step" => item.ms >= 200
    /\ \A id \in DOMAIN tests :
          \A k \in DOMAIN tests[id].waits :
              tests[id].waits[k] >= 200 /\ tests[id].waits[k] = tests[id].waits[1]

\* a repeat timer is started with max(200, interval) and a countdown with
\* steps of max(200, step), of the entries as they are at that step
C15_StartStep ==
    /\ \A n \in repeat_timers' \ repeat_timers :
          n.pc = "waiting" =>
              n.ms = IF repeat_interval_ms_var > 200 THEN repeat_interval_ms_var ELSE 200
    /\ \A id \in DOMAIN tests :
          (Live[id].src = "none" /\ tests'[id].with_countdown) =>
              /\ tests'[id].waits =
                    <<IF countdown_step_ms_var > 200 THEN countdown_step_ms_var ELSE 200>>
              /\ \E item \in after_queue' :
                    /\ item.fn = "show_step"
                    /\ item.inv = id
                    /\ item.ms = tests'[id].waits[1]

\* C15: whatever is entered, 0 and negative numbers included, every repeat
\* tick is scheduled after max(200, intervalMs) ms and every countdown step
\* waits max(200, stepMs) ms: none is scheduled with less than 200 ms.
C15_TimerFloors ==
    /\ []C15_Inv
    /\ [][C15_StartStep]_vars

C15_Witness ==
    /\ running_repeat
    /\ repeat_interval_ms_var <= 0
    /\ \E t \in repeat_timers : t.pc = "waiting" /\ t.ms = 200
    /\ \E id \in DOMAIN tests : tests[id].src = "tick"

\* C17: at most one repeat tick is pending at any time, and _repeat_timer
\* refers to every pending repeat timer, so that a disable cancels them all.
C17_OnePendingTimerInHandle ==
    /\ Cardinality({t \in repeat_timers : t.pc = "waiting"}) <= 1
    /\ \A t \in repeat_timers : t.pc = "waiting" => repeat_timer = t.id

PendingFlashOff(id) == {item \in after_queue : item.fn = "flash_off" /\ item.inv = id}

\* a lit flash has a flash-off pending
C16_Inv ==
    flash_bg = "active" => \E item \in after_queue : item.fn = "flash_off"

\* the flash is lit by a flash-on only, and a flash-on schedules one
\* flash-off, of the flash length of that moment
C16_FlashOnStep ==
    /\ (flash_bg = "normal" /\ flash_bg' = "active") =>
          \E id \in DOMAIN tests :
              Count(tests'[id].events, "flash") = Count(Live[id].events, "flash") + 1
    /\ \A id \in DOMAIN tests :
          Count(tests'[id].events, "flash") = Count(Live[id].events, "flash") + 1 =>
              /\ flash_bg' = "active"
              /\ \E item \in after_queue' :
                    /\ item = AfterItem("flash_off", id, flash_ms_var, 0)
                    /\ {i \in after_queue' \ after_queue : i.fn = "flash_off"} = {item}

\* C16: every flash-on schedules exactly one flash-off after the flash
\* length, so a lit flash always has a flash-off pending and eventually
\* returns to normal, and it is lit again by the next flash-on only.
C16_FlashEnds ==
    /\ []C16_Inv
    /\ [][C16_FlashOnStep]_vars
    /\ (flash_bg = "active") ~> (flash_bg = "normal")

C16_Witness ==
    /\ flash_bg = "normal"
    /\ center_text = ""
    /\ after_queue = {}
    /\ \E id \in DOMAIN tests :
          /\ tests[id].events = <<"beep", "flash">>
          /\ tests[id].flash_ms = 60

\* C18: a flash stays lit until the flash-off scheduled by its own flash-on
\* fires, also when tests overlap: while the flash-off of a test is pending
\* the flash area is lit.
C18_LitUntilOwnFlashOff ==
    \A id \in DOMAIN tests :
        PendingFlashOff(id) # {} => flash_bg = "active"

====
